---- MODULE Spec2Model ----
(***************************************************************************)
(* Cart with two poles (Chapter4/cart_two_pole.py): the equations of       *)
(* motion (calc_step), the bounds test (outside_bounds), the fourth-order  *)
(* Runge-Kutta stepper (rk4) and the control tick (apply_action).          *)
(*                                                                         *)
(* Numbers.  A Python float is modelled as a fixed-point integer: the      *)
(* value v stands for v / Scale.  Every product and quotient is rounded to *)
(* the nearest unit, as a float operation rounds to the nearest float.     *)
(* math.sin and math.cos are evaluated by their Taylor polynomials, whose  *)
(* truncation error is below one unit on the angles the model uses.        *)
(***************************************************************************)
EXTENDS Integers, Sequences, FiniteSets, TLC

----------------------------------------------------------------------------
(* Fixed-point arithmetic                                                  *)

Scale == 10^6
\* The radix of the long multiplication and division: Radix * Radix = Scale.
Radix == 10^3
Centi == 10^2

Abs(a) == IF a < 0 THEN -a ELSE a
Sgn(a) == IF a < 0 THEN -1 ELSE 1

\* n / d for integers n and d > 0, rounded to the nearest integer.
RoundDiv(n, d) == Sgn(n) * ((2 * Abs(n) + d) \div (2 * d))

\* The float literal n/d (0.75 is Lit(75, 100)).
Lit(n, d) == n * (Scale \div d)

\* Each operation below is a function of the VALUES of its operands: a float
\* operation sees its operands evaluated, once.

\* a * b on floats: |a| * |b| / Scale by long multiplication in base Radix,
\* so that no intermediate exceeds the machine integer.
MulAbs[a \in Nat, b \in Nat] ==
    LET a1 == a \div Radix
        a0 == a % Radix
        b1 == b \div Radix
        b0 == b % Radix
        m  == a1 * b0 + a0 * b1
    IN  a1 * b1 + (m \div Radix)
          + ((m % Radix) * Radix + a0 * b0 + Scale \div 2) \div Scale

Mul(a, b) == Sgn(a) * Sgn(b) * MulAbs[Abs(a), Abs(b)]

\* a / b on floats: |a| * Scale / |b| by long division, two decimal digits
\* (Centi) at a time: Centi * Centi * Centi = Scale.
DivAbs[a \in Nat, b \in Nat] ==
    LET q0 == a \div b
        r0 == a % b
        q1 == (r0 * Centi) \div b
        r1 == (r0 * Centi) % b
        q2 == (r1 * Centi) \div b
        r2 == (r1 * Centi) % b
        q3 == (r2 * Centi) \div b
        r3 == (r2 * Centi) % b
    IN  q0 * Scale + q1 * Centi * Centi + q2 * Centi + q3
          + (IF 2 * r3 >= b THEN 1 ELSE 0)

Div(a, b) == Sgn(a) * Sgn(b) * DivAbs[Abs(a), Abs(b)]

\* math.sin and math.cos.
sin_of[t \in Int] ==
    LET t2 == Mul(t, t)
        t3 == Mul(t2, t)
        t5 == Mul(t3, t2)
        t7 == Mul(t5, t2)
    IN  t - RoundDiv(t3, 6) + RoundDiv(t5, 120) - RoundDiv(t7, 5040)

cos_of[t \in Int] ==
    LET t2 == Mul(t, t)
        t4 == Mul(t2, t2)
        t6 == Mul(t4, t2)
        t8 == Mul(t4, t4)
    IN  Lit(1, 1) - RoundDiv(t2, 2) + RoundDiv(t4, 24) - RoundDiv(t6, 720)
          + RoundDiv(t8, 40320)

sin(t) == sin_of[t]
cos(t) == cos_of[t]

----------------------------------------------------------------------------
(* The module-level constants, in units of 1 / Scale                       *)

GRAVITY == -9800000
MASS_CART == 1000000
FORCE_MAG == 10000000
MASS_POLE_1 == 1000000
LENGTH_1 == 500000
MASS_POLE_2 == 100000
LENGTH_2 == 50000
MUP == 2
\* (36 * math.pi) / 180.0 = 0.6283185307..., to the nearest unit.
THIRTY_SIX_DEG_IN_RAD == 628319

\* The float literals of the source.
Half == Lit(5, 10)
One == Lit(1, 1)
Two == Lit(2, 1)
Six == Lit(6, 1)
ThreeQuarters == Lit(75, 100)
XLimit == Lit(24, 10)
TAU == Lit(1, 100)

\* A list is the tuple of the numbers in its slots; NoList stands for a list
\* none of whose slots holds a number: the list [None] * 6, a local not yet
\* assigned, a list that is no more.
NoList == <<>>
\* The locals of a function that is not running.
NoFrame == [running |-> FALSE]

VARIABLES
    globals,      \* the module-level names GRAVITY .. THIRTY_SIX_DEG_IN_RAD
    pc,           \* the statement the interpreter is at; "idle" outside any call
    caller,       \* who called rk4: "apply_action" or "top" (the embedding program)
    aa,           \* the scalar locals of apply_action: action, args (x, x_dot,
                  \* theta1, theta1_dot, theta2, theta2_dot), step_number, i
    y,            \* the list apply_action names state and rk4 names y (one object)
    dydx,         \* the list of derivatives (one object in apply_action and rk4)
    rk,           \* the locals of rk4: f, tau, yt, dyt, dym
    trace,        \* history: the calc_step and rk4 invocations of the current call
    last,         \* history: the call that returned last, with its result
    remembered    \* history: an earlier call the embedding program kept

vars == <<globals, pc, caller, aa, y, dydx, rk, trace, last, remembered>>

\* The locals by their names.
action == aa.action
args == aa.args
step_number == aa.step_number
i == aa.i
f == rk.f
tau == rk.tau
yt == rk.yt
dyt == rk.dyt
dym == rk.dym

----------------------------------------------------------------------------
(* calc_step                                                               *)

\* A faulty reading of the action: the force without the centering at 0.5.
force_uncentered(a) == Mul(Mul(a, globals.FORCE_MAG), Two)

\* The input force direction: force = (action - 0.5) * FORCE_MAG * 2.0.
force_of(a) == Mul(Mul(a - Half, globals.FORCE_MAG), Two)

\* The stages of calc_step below are functions of the VALUES of the locals
\* they read: a statement sees each local evaluated, once.
Float == Int
Projections ==
    [cos_theta : Float, sin_theta : Float, theta_dot : Float, ml : Float,
     mass : Float, g_sin_theta : Float, temp : Float]
Intermediates ==
    [cos_theta : Float, g_sin_theta : Float, temp : Float, fi : Float, mi : Float]
Locals ==
    [force : Float, fi_1 : Float, fi_2 : Float, mi_1 : Float, mi_2 : Float,
     num : Float, den : Float, x_ddot : Float, theta_1_ddot : Float,
     theta_2_ddot : Float]

\* The locals of calc_step that belong to one pole, from its angle, angular
\* velocity, half-length and mass (the source writes the same statements
\* once with the names .._1 and once with the names .._2):
\*   cos_theta, sin_theta, g_sin_theta, ml, temp ..
pole_projections[cos_theta, sin_theta, theta_dot, ml, mass \in Float] ==
    [cos_theta |-> cos_theta, sin_theta |-> sin_theta, theta_dot |-> theta_dot,
     ml |-> ml, mass |-> mass,
     g_sin_theta |-> Mul(globals.GRAVITY, sin_theta),
     temp |-> Div(Mul(globals.MUP, theta_dot), ml)]

\*   .. fi and mi.
pole_intermediate[p \in Projections] ==
    [cos_theta |-> p.cos_theta, g_sin_theta |-> p.g_sin_theta, temp |-> p.temp,
     fi |-> Mul(Mul(Mul(p.ml, p.theta_dot), p.theta_dot), p.sin_theta)
              + Mul(Mul(Mul(ThreeQuarters, p.mass), p.cos_theta),
                    p.temp + p.g_sin_theta),
     mi |-> Mul(p.mass, One - Mul(Mul(ThreeQuarters, p.cos_theta), p.cos_theta))]

pole(theta, theta_dot, length, mass) ==
    pole_intermediate[
        pole_projections[cos(theta), sin(theta), theta_dot, Mul(length, mass), mass]]

\* The angular acceleration of a pole.
theta_ddot[x_ddot \in Float, p \in Intermediates, length \in Float] ==
    Div(Mul(-ThreeQuarters, Mul(x_ddot, p.cos_theta) + p.g_sin_theta + p.temp),
        length)

\* The results, from the two operands num and den of the division that
\* yields x_ddot.
calc_step_results[force \in Float, p1, p2 \in Intermediates, num, den, x_ddot \in Float] ==
    [force |-> force, fi_1 |-> p1.fi, fi_2 |-> p2.fi, mi_1 |-> p1.mi,
     mi_2 |-> p2.mi, num |-> num, den |-> den, x_ddot |-> x_ddot,
     theta_1_ddot |-> theta_ddot[x_ddot, p1, globals.LENGTH_1],
     theta_2_ddot |-> theta_ddot[x_ddot, p2, globals.LENGTH_2]]

calc_step_division[force \in Float, p1, p2 \in Intermediates, num, den \in Float] ==
    calc_step_results[force, p1, p2, num, den, Div(num, den)]

calc_step_poles[force \in Float, p1, p2 \in Intermediates] ==
    calc_step_division[force, p1, p2, force + p1.fi + p2.fi,
                       p1.mi + p2.mi + globals.MASS_CART]

\* Every local of calc_step the results rest on, by name.
calc_step_locals(a, x, x_dot, theta1, theta1_dot, theta2, theta2_dot) ==
    calc_step_poles[force_of(a),
                    pole(theta1, theta1_dot, globals.LENGTH_1, globals.MASS_POLE_1),
                    pole(theta2, theta2_dot, globals.LENGTH_2, globals.MASS_POLE_2)]

returned[l \in Locals] == <<l.x_ddot, l.theta_1_ddot, l.theta_2_ddot>>

\* The triple calc_step returns.
calc_step(a, x, x_dot, theta1, theta1_dot, theta2, theta2_dot) ==
    returned[calc_step_locals(a, x, x_dot, theta1, theta1_dot, theta2, theta2_dot)]

\* calc_step on the six slots of a state list s.
calc_step_at(a, s) == calc_step(a, s[1], s[2], s[3], s[4], s[5], s[6])

----------------------------------------------------------------------------
(* outside_bounds                                                          *)

\* Faulty variants: the limits counted as violations; the second pole's
\* negative limit forgotten.
outside_bounds_inclusive(x, theta1, theta2) ==
    \/ x <= -XLimit
    \/ x >= XLimit
    \/ theta1 <= -globals.THIRTY_SIX_DEG_IN_RAD
    \/ theta1 >= globals.THIRTY_SIX_DEG_IN_RAD
    \/ theta2 <= -globals.THIRTY_SIX_DEG_IN_RAD
    \/ theta2 >= globals.THIRTY_SIX_DEG_IN_RAD
outside_bounds_one_sided(x, theta1, theta2) ==
    \/ x < -XLimit
    \/ x > XLimit
    \/ theta1 < -globals.THIRTY_SIX_DEG_IN_RAD
    \/ theta1 > globals.THIRTY_SIX_DEG_IN_RAD
    \/ theta2 > globals.THIRTY_SIX_DEG_IN_RAD

outside_bounds(x, theta1, theta2) ==
    \/ x < -XLimit
    \/ x > XLimit
    \/ theta1 < -globals.THIRTY_SIX_DEG_IN_RAD
    \/ theta1 > globals.THIRTY_SIX_DEG_IN_RAD
    \/ theta2 < -globals.THIRTY_SIX_DEG_IN_RAD
    \/ theta2 > globals.THIRTY_SIX_DEG_IN_RAD

----------------------------------------------------------------------------
(* The embedding program: what it may pass                                 *)

MaxTauMult == 2

Actions == {0, Half, One}
States ==
    { <<0, 0, 0, 0, 0, 0>>,
      <<Lit(5, 10), One, Lit(1, 10), -Half, -Lit(5, 100), Lit(25, 10)>>,
      <<-Lit(23, 10), -Lit(8, 10), -Lit(6, 10), Lit(12, 10), Lit(62, 100), -Lit(3, 1)>>,
      <<Lit(24, 10), 0, Lit(3, 10), Lit(15, 10), -Lit(2, 10), -Lit(4, 10)>> }
StepNumbers == {0, 1}
Taus == {k * TAU : k \in 1..MaxTauMult}

\* The positions and angles outside_bounds is asked about: the limits, their
\* neighbours and the origin.
Eps == Lit(1, 10000)
Positions == {-XLimit - Eps, -XLimit, 0, XLimit - Eps, XLimit, XLimit + Eps}
Angles ==
    {-THIRTY_SIX_DEG_IN_RAD - Eps, -THIRTY_SIX_DEG_IN_RAD, 0, Lit(6283, 10000),
     THIRTY_SIX_DEG_IN_RAD, THIRTY_SIX_DEG_IN_RAD + Eps}
Points == Positions \X Angles \X Angles

\* A smaller choice of each, for the program that keeps results to compare.
FewActions == {0, One}
FewStates ==
    { <<0, 0, 0, 0, 0, 0>>,
      <<Lit(5, 10), One, Lit(1, 10), -Half, -Lit(5, 100), Lit(25, 10)>> }
FewPoints == {<<XLimit, 0, 0>>, <<0, THIRTY_SIX_DEG_IN_RAD + Eps, 0>>, <<0, 0, 0>>}

Init ==
    /\ globals = [GRAVITY |-> GRAVITY, MASS_CART |-> MASS_CART,
                  FORCE_MAG |-> FORCE_MAG, MASS_POLE_1 |-> MASS_POLE_1,
                  LENGTH_1 |-> LENGTH_1, MASS_POLE_2 |-> MASS_POLE_2,
                  LENGTH_2 |-> LENGTH_2, MUP |-> MUP,
                  THIRTY_SIX_DEG_IN_RAD |-> THIRTY_SIX_DEG_IN_RAD]
    /\ pc = "idle"
    /\ caller = "none"
    /\ aa = NoFrame
    /\ y = NoList
    /\ dydx = NoList
    /\ rk = NoFrame
    /\ trace = <<>>
    /\ last = [fn |-> "none", args |-> [none |-> TRUE], res |-> <<>>]
    /\ remembered = last

----------------------------------------------------------------------------
(* History records                                                         *)

CalcEvent(site, a, at, res) ==
    [op |-> "calc_step", site |-> site, action |-> a, at |-> at,
     dydx |-> <<>>, tau |-> 0, res |-> res]
Rk4Event(fv, yv, dv, tv) ==
    [op |-> "rk4", site |-> "rk4", action |-> fv, at |-> yv,
     dydx |-> dv, tau |-> tv, res |-> <<>>]
Call(fn, a, res) == [fn |-> fn, args |-> a, res |-> res]
\* No call has returned yet.
NoCall == Call("none", [none |-> TRUE], <<>>)

\* The embedding program keeps the result it got last, or the one it kept.
Keep(keep) == remembered' = IF keep /\ last.fn # "none" THEN last ELSE remembered

----------------------------------------------------------------------------
(* rk4(f, y, dydx, tau)                                                    *)

\* y[i] + h * d[i] for i in range(6).
trial(yv, h, d) == [k \in 1..6 |-> yv[k] + Mul(h, d[k])]

\* A faulty variant: the positions copied where the velocities belong.
derivatives_from_positions(ytv, r) == <<ytv[1], r[1], ytv[3], r[2], ytv[5], r[3]>>

\* [yt[1], x_ddot, yt[3], theta_1_ddot, yt[5], theta_2_ddot]
derivatives(ytv, r) == <<ytv[2], r[1], ytv[4], r[2], ytv[6], r[3]>>

\* A faulty variant: dym left as it is, the slope of stage C forgotten.
accumulate_nothing(dm, dt) == dm

\* dym[i] += dyt[i] for i in range(6).
accumulate(dm, dt) == [k \in 1..6 |-> dm[k] + dt[k]]

\* y[i] + h6 * (dydx[i] + dyt[i] + 2.0 * dym[i]) for i in range(6).
combine(yv, h6, dx, dt, dm) ==
    [k \in 1..6 |-> yv[k] + Mul(h6, dx[k] + dt[k] + Mul(Two, dm[k]))]

\* Faulty variants: the action rounded to 0 or 1; stage C built from the
\* slope of stage A.
rk4_action_rounded == IF f >= Half THEN One ELSE 0
stageC_slope_stale == dyt

\* The action rk4 hands to calc_step (action = f).
rk4_action == f
\* The derivative the second trial state is built from.
stageB_slope == dyt
\* The derivative the third trial state is built from.
stageC_slope == dym

\* hh, the first trial state, calc_step, dyt.
rk4StageA ==
    /\ pc = "rk_A"
    /\ \E t \in {trial(y, Div(tau, Two), dydx)} :
       \E r \in {calc_step_at(rk4_action, t)} :
           /\ rk' = [rk EXCEPT !.yt = t, !.dyt = derivatives(t, r)]
           /\ trace' = Append(trace, CalcEvent("A", rk4_action, t, r))
    /\ pc' = "rk_B"
    /\ UNCHANGED <<globals, caller, aa, y, dydx, last, remembered>>

\* The second trial state, calc_step, dym.
rk4StageB ==
    /\ pc = "rk_B"
    /\ \E t \in {trial(y, Div(tau, Two), stageB_slope)} :
       \E r \in {calc_step_at(rk4_action, t)} :
           /\ rk' = [rk EXCEPT !.yt = t, !.dym = derivatives(t, r)]
           /\ trace' = Append(trace, CalcEvent("B", rk4_action, t, r))
    /\ pc' = "rk_C"
    /\ UNCHANGED <<globals, caller, aa, y, dydx, last, remembered>>

\* The third trial state and the accumulation of dym, calc_step, dyt.
rk4StageC ==
    /\ pc = "rk_C"
    /\ \E t \in {trial(y, tau, stageC_slope)} :
       \E r \in {calc_step_at(rk4_action, t)} :
           /\ rk' = [rk EXCEPT !.yt = t, !.dym = accumulate(dym, dyt),
                                !.dyt = derivatives(t, r)]
           /\ trace' = Append(trace, CalcEvent("C", rk4_action, t, r))
    /\ pc' = "rk_sum"
    /\ UNCHANGED <<globals, caller, aa, y, dydx, last, remembered>>

\* A faulty variant: the final loop leaves its sum of slopes in dydx.
rk4Final_clobbering ==
    /\ pc = "rk_sum"
    /\ y' = combine(y, Div(tau, Six), dydx, dyt, dym)
    /\ dydx' = accumulate(dydx, dyt)
    /\ pc' = "rk_ret"
    /\ UNCHANGED <<globals, caller, aa, rk, trace, last, remembered>>

\* h6 and the state after the approximation, written into y.
rk4Final ==
    /\ pc = "rk_sum"
    /\ y' = combine(y, Div(tau, Six), dydx, dyt, dym)
    /\ pc' = "rk_ret"
    /\ UNCHANGED <<globals, caller, aa, dydx, rk, trace, last, remembered>>

\* rk4 returns into the loop of apply_action, which goes on to its next turn.
rk4ReturnToApplyAction ==
    /\ pc = "rk_ret"
    /\ caller = "apply_action"
    /\ aa' = [aa EXCEPT !.i = @ + 1]
    /\ pc' = "aa_for"
    /\ rk' = NoFrame
    /\ UNCHANGED <<globals, caller, y, dydx, trace, last, remembered>>

\* rk4 returns to the embedding program, which finds its list y updated.
rk4ReturnToTop ==
    /\ pc = "rk_ret"
    /\ caller = "top"
    /\ last' = Call("rk4", [f |-> trace[1].action, y |-> trace[1].at,
                             dydx |-> trace[1].dydx, tau |-> trace[1].tau],
                     <<y, dydx>>)
    /\ pc' = "idle"
    /\ caller' = "none" /\ y' = NoList /\ dydx' = NoList
    /\ rk' = NoFrame
    /\ UNCHANGED <<globals, aa, trace, remembered>>

----------------------------------------------------------------------------
(* apply_action(action, x, x_dot, theta1, theta1_dot, theta2, theta2_dot,  *)
(*              step_number)                                               *)

\* The number of simulation steps of one control input: range(2).
SimulationSteps == 2

\* The arguments apply_action evaluates calc_step at: x = x, x_dot = x_dot, ..
\* (its own arguments, which no statement rebinds).
derivative_point == args

\* The state list and the holder of the derivatives.
ApplyActionEnter(a, s, n, keep) ==
    /\ pc = "idle"
    /\ aa' = [action |-> a, args |-> s, step_number |-> n, i |-> 0]
    /\ y' = s
    /\ dydx' = NoList
    /\ trace' = <<>>
    /\ pc' = "aa_for"
    /\ Keep(keep)
    /\ last' = NoCall
    /\ UNCHANGED <<globals, caller, rk>>

\* One turn of the loop up to the call of rk4: the velocities are copied
\* from state, the accelerations come from calc_step.
ApplyActionDerivatives ==
    /\ pc = "aa_for"
    /\ i < SimulationSteps
    /\ \E r \in {calc_step_at(action, derivative_point)} :
           /\ dydx' = <<y[2], r[1], y[4], r[2], y[6], r[3]>>
           /\ trace' = Append(trace, CalcEvent("derivatives", action,
                                               derivative_point, r))
    /\ pc' = "aa_rk4"
    /\ UNCHANGED <<globals, caller, aa, y, rk, last, remembered>>

\* rk4(f=action, y=state, dydx=dydx, tau=TAU)
ApplyActionCallRk4 ==
    /\ pc = "aa_rk4"
    /\ rk' = [f |-> action, tau |-> TAU, yt |-> NoList, dyt |-> NoList,
               dym |-> NoList]
    /\ caller' = "apply_action"
    /\ trace' = Append(trace, Rk4Event(action, y, dydx, TAU))
    /\ pc' = "rk_A"
    /\ UNCHANGED <<globals, aa, y, dydx, last, remembered>>

\* A faulty variant: the call leaves FORCE_MAG rebound for the calls to come.
ApplyActionReturn_rebinding ==
    /\ pc = "aa_for"
    /\ i >= SimulationSteps
    /\ last' = Call("apply_action", [action |-> action, state |-> args,
                                      step_number |-> step_number], y)
    /\ globals' = [globals EXCEPT !.FORCE_MAG = Mul(@, Half + action)]
    /\ pc' = "idle"
    /\ caller' = "none" /\ aa' = NoFrame /\ y' = NoList /\ dydx' = NoList
    /\ UNCHANGED <<rk, trace, remembered>>

\* return state[0], .., state[5]
ApplyActionReturn ==
    /\ pc = "aa_for"
    /\ i >= SimulationSteps
    /\ last' = Call("apply_action", [action |-> action, state |-> args,
                                      step_number |-> step_number], y)
    /\ pc' = "idle"
    /\ caller' = "none" /\ aa' = NoFrame /\ y' = NoList /\ dydx' = NoList
    /\ UNCHANGED <<globals, rk, trace, remembered>>

----------------------------------------------------------------------------
(* The calls the embedding program makes                                   *)

\* The derivative lists a direct caller of rk4 passes: the derivative of y,
\* or some other list of six numbers.
Dydxs(a, s) ==
    { derivatives(s, calc_step_at(a, s)),
      <<One, -Two, Half, 0, -One, Six>> }

Rk4Enter(a, s, d, t, keep) ==
    /\ pc = "idle"
    /\ rk' = [f |-> a, tau |-> t, yt |-> NoList, dyt |-> NoList, dym |-> NoList]
    /\ y' = s
    /\ dydx' = d
    /\ caller' = "top"
    /\ trace' = <<Rk4Event(a, s, d, t)>>
    /\ pc' = "rk_A"
    /\ Keep(keep)
    /\ last' = NoCall
    /\ UNCHANGED <<globals, aa>>

CalcStepCall(a, s, keep) ==
    /\ pc = "idle"
    /\ \E r \in {calc_step_at(a, s)} : last' = Call("calc_step", [action |-> a, state |-> s], r)
    /\ trace' = <<>>
    /\ Keep(keep)
    /\ UNCHANGED <<globals, pc, caller, aa, y, dydx, rk>>

OutsideBoundsCall(x, theta1, theta2, keep) ==
    /\ pc = "idle"
    /\ last' = Call("outside_bounds", [x |-> x, theta1 |-> theta1, theta2 |-> theta2],
                    outside_bounds(x, theta1, theta2))
    /\ trace' = <<>>
    /\ Keep(keep)
    /\ UNCHANGED <<globals, pc, caller, aa, y, dydx, rk>>

\* The calls of a program that draws its arguments from the given sets.
Calls(As, Ss, Ns, Ts, Ps, Ks) ==
    \/ \E a \in As, s \in Ss, n \in Ns, keep \in Ks :
         ApplyActionEnter(a, s, n, keep)
    \/ \E a \in As, s \in Ss, t \in Ts :
         \E d \in Dydxs(a, s) : \E keep \in Ks : Rk4Enter(a, s, d, t, keep)
    \/ \E a \in As, s \in Ss, keep \in Ks : CalcStepCall(a, s, keep)
    \/ \E p \in Ps, keep \in Ks : OutsideBoundsCall(p[1], p[2], p[3], keep)

\* The statements of a call under way.
Steps ==
    \/ ApplyActionDerivatives
    \/ ApplyActionCallRk4
    \/ ApplyActionReturn
    \/ rk4StageA
    \/ rk4StageB
    \/ rk4StageC
    \/ rk4Final
    \/ rk4ReturnToApplyAction
    \/ rk4ReturnToTop

Next == Calls(Actions, States, StepNumbers, Taus, Points, {FALSE}) \/ Steps

\* The same program, keeping the result of an earlier call.
NextKeeping ==
    Calls(FewActions, FewStates, StepNumbers, Taus, FewPoints, BOOLEAN) \/ Steps

Spec == Init /\ [][Next]_vars
SpecKeeping == Init /\ [][NextKeeping]_vars

\* A call under way runs on: the interpreter does not stop between statements.
FairSpec == Spec /\ WF_vars(Steps)

----------------------------------------------------------------------------
(* What the properties below speak of                                      *)

InitialGlobals ==
    [GRAVITY |-> GRAVITY, MASS_CART |-> MASS_CART, FORCE_MAG |-> FORCE_MAG,
     MASS_POLE_1 |-> MASS_POLE_1, LENGTH_1 |-> LENGTH_1,
     MASS_POLE_2 |-> MASS_POLE_2, LENGTH_2 |-> LENGTH_2, MUP |-> MUP,
     THIRTY_SIX_DEG_IN_RAD |-> THIRTY_SIX_DEG_IN_RAD]

InRk4 == pc \in {"rk_A", "rk_B", "rk_C", "rk_sum", "rk_ret"}
\* apply_action is under way, in its own statements or in the rk4 it called.
InApplyAction == pc \in {"aa_for", "aa_rk4"} \/ (InRk4 /\ caller = "apply_action")
\* apply_action has just returned; trace still holds what it invoked.
ApplyActionReturned == pc = "idle" /\ last.fn = "apply_action"

\* The derivative of the state s under the control a: the velocities of s
\* and the accelerations calc_step finds at s.
DerivativeAt(a, s) == derivatives(s, calc_step_at(a, s))

\* The rk4 invocation under way (or the last one made), as it was entered.
Rk4Entries == {k \in 1..Len(trace) : trace[k].op = "rk4"}
LastRk4Entry == trace[CHOOSE k \in Rk4Entries : \A j \in Rk4Entries : j <= k]
LastEvent == trace[Len(trace)]

----------------------------------------------------------------------------
\* C1: in each of the two iterations of apply_action the derivative handed
\* to rk4 is the derivative of the state as it stands at the start of that
\* iteration: its velocities, and the accelerations calc_step finds at that
\* same state (in the second iteration: at the state the first rk4 produced).
C1_DerivativeOfCurrentState ==
    (pc = "rk_A" /\ caller = "apply_action") => dydx = DerivativeAt(action, y)

----------------------------------------------------------------------------
\* C2: outside_bounds(x, theta1, theta2) is true exactly when x < -2.4 or
\* x > 2.4 or |theta1| > THIRTY_SIX_DEG_IN_RAD or |theta2| >
\* THIRTY_SIX_DEG_IN_RAD; it answers for every input and changes nothing.
Violates(x, theta1, theta2) ==
    \/ x < -XLimit
    \/ x > XLimit
    \/ Abs(theta1) > THIRTY_SIX_DEG_IN_RAD
    \/ Abs(theta2) > THIRTY_SIX_DEG_IN_RAD

C2_OutsideBoundsIff ==
    last.fn = "outside_bounds" =>
        /\ last.res \in BOOLEAN
        /\ last.res = Violates(last.args.x, last.args.theta1, last.args.theta2)
        /\ globals = InitialGlobals
        /\ pc = "idle"

\* A pole that has fallen too far to the negative side, and nothing else.
C2_Witness ==
    /\ last.fn = "outside_bounds"
    /\ last.args = [x |-> 0, theta1 |-> 0, theta2 |-> -THIRTY_SIX_DEG_IN_RAD - Eps]
    /\ last.res = TRUE

----------------------------------------------------------------------------
\* C3, as stated: at the limit values themselves outside_bounds reports a
\* violation (outside_bounds(2.4, 0, 0) and outside_bounds(0,
\* THIRTY_SIX_DEG_IN_RAD, 0) are true), and just inside it does not.
AtXLimit == [x |-> XLimit, theta1 |-> 0, theta2 |-> 0]
AtAngleLimit == [x |-> 0, theta1 |-> THIRTY_SIX_DEG_IN_RAD, theta2 |-> 0]
InsideXLimit == [x |-> XLimit - Eps, theta1 |-> 0, theta2 |-> 0]
InsideAngleLimit == [x |-> 0, theta1 |-> Lit(6283, 10000), theta2 |-> 0]

C3_LimitsViolate ==
    last.fn = "outside_bounds" =>
        /\ last.args = AtXLimit => last.res = TRUE
        /\ last.args = AtAngleLimit => last.res = TRUE
        /\ last.args = InsideXLimit => last.res = FALSE
        /\ last.args = InsideAngleLimit => last.res = FALSE

\* C3, amended: at the limit values themselves outside_bounds reports no
\* violation (the comparisons are strict), and just inside the limits it
\* reports none either.
C3_LimitsAreInside ==
    last.fn = "outside_bounds" =>
        /\ last.args = AtXLimit => last.res = FALSE
        /\ last.args = AtAngleLimit => last.res = FALSE
        /\ last.args = InsideXLimit => last.res = FALSE
        /\ last.args = InsideAngleLimit => last.res = FALSE

C3_Witness ==
    /\ last.fn = "outside_bounds"
    /\ last.args = AtXLimit
    /\ last.res = FALSE

----------------------------------------------------------------------------
\* C4: one rk4 call leaves in y the classical Runge-Kutta update
\* y + (tau/6) * (k1 + 2*k2 + 2*k3 + k4), with k1 the dydx passed in and k2,
\* k3, k4 the derivatives at y + (tau/2)*k1, y + (tau/2)*k2 and y + tau*k3.
Weighted(yv, h6, k1, k2, k3, k4) ==
    [k \in 1..6 |-> yv[k] + Mul(h6, k1[k] + 2 * k2[k] + 2 * k3[k] + k4[k])]
Textbook4(fv, yv, tv, k1, k2, k3) ==
    Weighted(yv, Div(tv, Six), k1, k2, k3, DerivativeAt(fv, trial(yv, tv, k3)))
Textbook3(fv, yv, tv, k1, k2) ==
    Textbook4(fv, yv, tv, k1, k2, DerivativeAt(fv, trial(yv, Div(tv, Two), k2)))
Textbook(fv, yv, k1, tv) ==
    Textbook3(fv, yv, tv, k1, DerivativeAt(fv, trial(yv, Div(tv, Two), k1)))
TextbookOf(e) == Textbook(e.action, e.at, e.dydx, e.tau)

C4_ClassicalRungeKutta == pc = "rk_ret" => y = TextbookOf(LastRk4Entry)

\* rk4 called with a step of 0.02 and a dydx that is no derivative of y.
C4_Witness ==
    /\ pc = "rk_ret"
    /\ caller = "top"
    /\ tau = 2 * TAU
    /\ dydx = <<One, -Two, Half, 0, -One, Six>>
    /\ y # LastRk4Entry.at

----------------------------------------------------------------------------
\* C5: two calls with identical arguments return identical results, whatever
\* calls happened before or in between, and no call changes a module-level
\* constant.
C5_SameArgumentsSameResult ==
    /\ globals = InitialGlobals
    /\ (last.fn # "none" /\ remembered.fn = last.fn /\ remembered.args = last.args)
         => remembered.res = last.res

\* apply_action called again with the arguments of a call kept from before.
C5_Witness ==
    /\ last.fn = "apply_action"
    /\ remembered.fn = "apply_action"
    /\ remembered.args = last.args
    /\ last.res # last.args.state

----------------------------------------------------------------------------
\* C6: action 1 is the force +FORCE_MAG and action 0 the force -FORCE_MAG,
\* fi_1, fi_2, mi_1, mi_2 do not depend on the action, and the part of the
\* cart acceleration that depends on the force is equal and opposite for the
\* two actions: x_ddot(1) - B = -(x_ddot(0) - B), B being the acceleration
\* (fi_1 + fi_2) / (mi_1 + mi_2 + MASS_CART) at action 0.5.  The three
\* accelerations are quotients by one denominator: the equation is stated of
\* force-dependent terms force / den (exactly), of their numerators
\* (exactly), and of the rounded quotients x_ddot to the last unit.
SamePoles(l, m) ==
    /\ l.fi_1 = m.fi_1 /\ l.fi_2 = m.fi_2
    /\ l.mi_1 = m.mi_1 /\ l.mi_2 = m.mi_2
    /\ l.den = m.den
Opposite(l1, l0, lB) ==
    /\ l1.force = FORCE_MAG
    /\ l0.force = -FORCE_MAG
    /\ lB.force = 0
    /\ SamePoles(l1, lB) /\ SamePoles(l0, lB)
    /\ lB.num = lB.fi_1 + lB.fi_2
    /\ lB.den = lB.mi_1 + lB.mi_2 + MASS_CART
    /\ lB.x_ddot = Div(lB.num, lB.den)
    /\ Div(l1.force, l1.den) = -Div(l0.force, l0.den)
    /\ l1.num - lB.num = -(l0.num - lB.num)
    /\ Abs((l1.x_ddot - lB.x_ddot) + (l0.x_ddot - lB.x_ddot)) <= 2
LocalsAt(a, s) == calc_step_locals(a, s[1], s[2], s[3], s[4], s[5], s[6])
OppositeAt(s) == Opposite(LocalsAt(One, s), LocalsAt(0, s), LocalsAt(Half, s))

----------------------------------------------------------------------------
\* C7: one apply_action call invokes calc_step 8 times and rk4 twice, in the
\* order [derivative evaluation, rk4: stage A, stage B, stage C] twice over;
\* in each rk4 call the trial state of stage B is built from the derivative
\* of stage A and that of stage C from the derivative of stage B; and the
\* call returns once the second rk4 has.
Pattern ==
    <<"derivatives", "rk4", "A", "B", "C", "derivatives", "rk4", "A", "B", "C">>
Sites == [k \in 1..Len(trace) |-> trace[k].site]
IsPrefix(p, q) == Len(p) <= Len(q) /\ \A k \in 1..Len(p) : p[k] = q[k]
Count(op) == Cardinality({k \in 1..Len(trace) : trace[k].op = op})
\* The derivative a calc_step invocation of rk4 yields.
Slope(e) == derivatives(e.at, e.res)
\* How far the call has come when the interpreter is at pc in turn i.
Position ==
    CASE pc = "aa_for" -> 5 * i
      [] pc = "aa_rk4" -> 5 * i + 1
      [] pc = "rk_A" -> 5 * i + 2
      [] pc = "rk_B" -> 5 * i + 3
      [] pc = "rk_C" -> 5 * i + 4
      [] OTHER -> 5 * i + 5
\* In the rk4 call entered at trace[b], each stage rests on the one before.
StagesChained(b) ==
    /\ Len(trace) >= b + 1 =>
         trace[b + 1].at = trial(trace[b].at, Div(trace[b].tau, Two), trace[b].dydx)
    /\ Len(trace) >= b + 2 =>
         trace[b + 2].at = trial(trace[b].at, Div(trace[b].tau, Two), Slope(trace[b + 1]))
    /\ Len(trace) >= b + 3 =>
         trace[b + 3].at = trial(trace[b].at, trace[b].tau, Slope(trace[b + 2]))

C7_Order ==
    /\ InApplyAction => IsPrefix(Sites, Pattern) /\ Len(trace) = Position
    /\ ApplyActionReturned =>
         Sites = Pattern /\ Count("calc_step") = 8 /\ Count("rk4") = 2
    /\ (InApplyAction \/ ApplyActionReturned) => StagesChained(2) /\ StagesChained(7)

C7_CallOrder == []C7_Order /\ (InApplyAction ~> ApplyActionReturned)

C7_Witness == ApplyActionReturned /\ Len(trace) = 10 /\ last.args.action = One

----------------------------------------------------------------------------
\* C8: within one apply_action call every calc_step invocation receives
\* exactly the action passed to apply_action, neither clamped nor rounded,
\* and every rk4 call receives tau = 0.01.
TickAction == IF pc = "idle" THEN last.args.action ELSE action

C8_ControlHeld ==
    /\ (InApplyAction \/ ApplyActionReturned) =>
         \A k \in 1..Len(trace) :
             /\ trace[k].action = TickAction
             /\ trace[k].op = "rk4" => trace[k].tau = TAU
    /\ (InRk4 /\ caller = "apply_action") => f = action /\ tau = TAU

\* A tick with the action 0.5, which is neither 0 nor 1.
C8_Witness == ApplyActionReturned /\ Len(trace) = 10 /\ last.args.action = Half

----------------------------------------------------------------------------
\* C9: every derivative list, when it is assembled, has its slots 0, 2, 4
\* copied from the velocity slots 1, 3, 5: the dydx apply_action hands to
\* rk4 from the state list it hands over, and each fresh dyt and dym from
\* the trial state calc_step was evaluated at, their slots 1, 3, 5 being the
\* values that calc_step call returned.
FromVelocities(d, sv) == d[1] = sv[2] /\ d[3] = sv[4] /\ d[5] = sv[6]
Assembled(d) ==
    /\ FromVelocities(d, yt)
    /\ LastEvent.op = "calc_step"
    /\ LastEvent.at = yt
    /\ LastEvent.res = <<d[2], d[4], d[6]>>
    /\ LastEvent.res = calc_step_at(f, yt)

C9_VelocitySlots ==
    /\ (pc = "rk_A" /\ caller = "apply_action") => FromVelocities(dydx, y)
    /\ pc = "rk_B" => Assembled(dyt)
    /\ pc = "rk_C" => Assembled(dym)
    /\ pc = "rk_sum" => Assembled(dyt)

\* The second rk4 of a tick, its dym fresh, the cart moving.
C9_Witness ==
    /\ pc = "rk_C"
    /\ caller = "apply_action"
    /\ i = 1
    /\ yt[2] # 0 /\ dym[1] = yt[2] /\ dym[2] # 0

----------------------------------------------------------------------------
\* C10: rk4 leaves the list dydx as it was, writes y only in its final loop,
\* builds its three trial states from the y it was entered with, and leaves y
\* with six slots and everything but y as it was.
EntryKept(e) ==
    /\ dydx = e.dydx
    /\ f = e.action
    /\ tau = e.tau
    /\ globals = InitialGlobals
    /\ Len(y) = 6
    /\ pc # "rk_ret" => y = e.at
    /\ pc = "rk_B" => yt = trial(e.at, Div(e.tau, Two), e.dydx)
    /\ pc = "rk_C" => yt = trial(e.at, Div(e.tau, Two), Slope(trace[Len(trace) - 1]))
    /\ pc \in {"rk_sum", "rk_ret"} => yt = trial(e.at, e.tau, Slope(trace[Len(trace) - 1]))
    /\ caller = "apply_action" => action = e.action /\ args = trace[1].at

C10_Rk4Frame ==
    /\ InRk4 => EntryKept(LastRk4Entry)
    /\ (pc = "idle" /\ last.fn = "rk4") =>
         last.res[2] = last.args.dydx /\ Len(last.res[1]) = 6

\* rk4 has written y, and the call came from the embedding program.
C10_Witness == pc = "rk_ret" /\ caller = "top" /\ y # LastRk4Entry.at /\ dydx[1] = One
====
